---- MODULE Spec2Model ----
(***************************************************************************)
(* Finance-agent chat endpoint (src/app/api/finance/chat/route.ts) and the *)
(* tool-calling loop runFinanceAgent (finance-agent/index.ts, kept in      *)
(* src/unnamed/part_003).                                                  *)
(*                                                                         *)
(* One request is modelled. The suspension points of the code are the      *)
(* awaits: request.json(), llm.invoke(messages), each tool.invoke(args)    *)
(* inside Promise.all, and the join of Promise.all. Everything between two *)
(* awaits runs to completion and is one action.                            *)
(*                                                                         *)
(* Strings whose length matters (the request's message) are kept           *)
(* run-length encoded: a sequence of runs <<ch, n>>, n >= 1, neighbouring  *)
(* runs holding different characters, so that two encodings are equal      *)
(* exactly when the strings are.                                           *)
(***************************************************************************)
EXTENDS Integers, Sequences, FiniteSets, TLC

VARIABLES
    body,        \* the request body as received (input)
    openaiKey,   \* process.env.OPENAI_API_KEY is set
    alphaKey,    \* process.env.ALPHA_VANTAGE_API_KEY is set
    pc,          \* POST start handler: "parsing" | "running" | "closed"
    frames,      \* frames enqueued on the stream, in order
    closed,      \* the stream controller has been closed
    closeCalls,  \* number of controller.close() invocations
    errored,     \* the stream was errored and its queued frames dropped
    query,       \* the message handed to runFinanceAgent
    loop,        \* runFinanceAgent: "idle" | "awaiting-model" | "executing-tools" | "done" | "exhausted" | "failed"
    messages,    \* the conversation
    i,           \* the for-loop index
    toolCalls,   \* response.tool_calls of the current iteration
    tasks,       \* per call of the iteration: "running" | "settled"
    toolResults, \* per call of the iteration: its ToolMessage or Null
    executions,  \* per call of the iteration: what its tool.invoke did
    modelCalls,  \* number of llm.invoke calls issued
    toolRuns,    \* number of tool.invoke calls issued
    nextId,      \* source of the model's tool-call ids
    varied       \* number of non-default replies/outcomes the environment has produced

\* Two requests served by one process (section "Concurrent requests")
VARIABLES
    requests,    \* per request: the locals of its POST and runFinanceAgent calls
    arrays,      \* the conversation arrays allocated so far, by identity
    streams      \* per request: the frames enqueued on its stream

endpointVars ==
    <<body, openaiKey, alphaKey, pc, frames, closed, closeCalls, errored,
      query, loop, messages, i, toolCalls, tasks, toolResults, executions,
      modelCalls, toolRuns, nextId, varied>>

\* The Spotify AI page (src/unnamed/part_000), section "Spotify AI page"
VARIABLES
    selectedSongs, \* useState: the ids of the selected songs, in order
    searchQuery,   \* useState: the text of the search input
    filteredSongs, \* useState: the ids of the songs of the last search result
    showResults,   \* useState
    rendered,      \* what the last committed render shows of the results list
    debounce,      \* the pending setTimeout of the search effect, with its closure
    fetches        \* the searches in flight, each with the closure of its effect

\* The finance-agent page (src/app/projects/finance-agent/page.tsx),
\* section "Finance-agent page"
VARIABLES
    chat,           \* useState `messages` of the page: the chat shown
    input,          \* useState: the text of the input
    isProcessing,   \* useState
    currentThought, \* useState: the thought shown, or Null
    closure,        \* the state the handlers of the last commit were created with
    runs,           \* the calls of handleSubmit that got past its guard
    submits         \* number of submit events so far

\* The audio toggle of the root layout (page.tsx lines 391-600), section
\* "Audio toggle"
VARIABLES
    isPlaying,      \* useState
    audioPaused,    \* audioRef.current.paused
    volume,         \* audioRef.current.volume, in thousandths
    fadeIns,        \* fadeIn intervals not yet cleared
    fadeOuts,       \* fadeOut intervals not yet cleared
    clicks          \* clicks on the toggle so far

pairVars == <<requests, arrays, streams>>

audioVars == <<isPlaying, audioPaused, volume, fadeIns, fadeOuts, clicks>>

chatVars == <<chat, input, isProcessing, currentThought, closure, runs, submits>>

spotifyVars == <<selectedSongs, searchQuery, filteredSongs, showResults,
                 rendered, debounce, fetches>>

\* everything outside the single-request endpoint model
otherVars == <<pairVars, spotifyVars, chatVars, audioVars>>

vars == <<endpointVars, otherVars>>

Null == "null"

-----------------------------------------------------------------------------
(* Bounds and program constants *)

\* at most this many non-default environment choices (a reply that is not the
\* default single-call batch, a tool outcome that is not "ok") in one run
MaxVaried == 1

\* AGENT_CONFIG.maxIterations
maxIterations == 10

\* message.trim().slice(0, 500)
MaxMessageLength == 500

\* the limit of get_company_news: z.number().min(1).max(10).default(5)
MinNewsLimit == 1
MaxNewsLimit == 10
DefaultNewsLimit == 5

-----------------------------------------------------------------------------
(* Run-length encoded strings *)

IsSpace(ch) == ch = " "

RECURSIVE StrLen(_)
StrLen(s) == IF s = <<>> THEN 0 ELSE Head(s)[2] + StrLen(Tail(s))

RECURSIVE TrimStart(_)
TrimStart(s) ==
    IF s # <<>> /\ IsSpace(Head(s)[1]) THEN TrimStart(Tail(s)) ELSE s

RECURSIVE TrimEnd(_)
TrimEnd(s) ==
    IF s # <<>> /\ IsSpace(s[Len(s)][1])
    THEN TrimEnd(SubSeq(s, 1, Len(s) - 1))
    ELSE s

\* String.prototype.trim
Trim(s) == TrimEnd(TrimStart(s))

\* String.prototype.slice(0, k)
RECURSIVE Slice(_, _)
Slice(s, k) ==
    IF s = <<>> \/ k <= 0 THEN <<>>
    ELSE IF Head(s)[2] <= k
         THEN <<Head(s)>> \o Slice(Tail(s), k - Head(s)[2])
         ELSE << <<Head(s)[1], k>> >>

\* route.ts line 47
Normalize(s) == Slice(Trim(s), MaxMessageLength)

-----------------------------------------------------------------------------
(* Values of the request: what request.json() yields *)

Str(s) == [type |-> "string", num |-> 0, str |-> s]
Num(n) == [type |-> "number", num |-> n, str |-> <<>>]
Undefined == [type |-> "undefined", num |-> 0, str |-> <<>>]

\* JavaScript's !message
Falsy(v) ==
    \/ v.type = "undefined"
    \/ v.type = "number" /\ v.num = 0
    \/ v.type = "string" /\ v.str = <<>>

ValidMessageUntrimmed(v) ==
    ~ ( \/ Falsy(v)
        \/ v.type # "string" )

\* the negation of the condition of route.ts line 41
ValidMessage(v) ==
    ~ ( \/ Falsy(v)
        \/ v.type # "string"
        \/ StrLen(Trim(v.str)) = 0 )

\* "unparsable": request.json() rejects; "null": the JSON value null, on which
\* body.message throws a TypeError inside the inner try; "object": a JSON
\* object whose message property is the given value
Unparsable == [kind |-> "unparsable", message |-> Undefined]
JsonNull == [kind |-> "null", message |-> Undefined]
Obj(v) == [kind |-> "object", message |-> v]

LongEdge == << <<"a", 499>>, <<" ", 1>>, <<"b", 1>> >>

Bodies ==
    { Unparsable, JsonNull,
      Obj(Undefined), Obj(Num(0)), Obj(Num(7)),
      Obj(Str(<<>>)), Obj(Str(<< <<" ", 3>> >>)),
      Obj(Str(<< <<" ", 1>>, <<"a", 2>>, <<" ", 2>> >>)),
      Obj(Str(<< <<"a", 501>> >>)),
      Obj(Str(LongEdge)) }

-----------------------------------------------------------------------------
(* Frames and the stream controller *)

Frame(t, c) == [type |-> t, content |-> c]

SendFirst(fs, f) == <<f>> \o fs

\* send(): controller.enqueue of one encoded frame
Send(fs, f) == Append(fs, f)

\* an Error's message, kept as the set of the substrings the endpoint looks
\* for that it contains; message.includes(s) is membership
Includes(msg, s) == s \in msg

OpenAIKeyError == {"OPENAI_API_KEY"}

\* the messages with which llm.invoke may reject
ModelErrors == { {}, {"OPENAI_API_KEY"}, {"ALPHA_VANTAGE_API_KEY"} }

ErrorFrameVerbatim(msg) ==
    Frame("error", IF Includes(msg, "OPENAI_API_KEY")
                   THEN "OPENAI_API_KEY is not set. Add it to .env.local"
                   ELSE "Request failed with status code 500")

ErrorFrameGeneric(msg) == Frame("error", "Something went wrong. Please try again.")

\* the catch block of POST, route.ts lines 60-70
ErrorFrame(msg) ==
    IF Includes(msg, "OPENAI_API_KEY")
    THEN Frame("error", "OpenAI API key is not configured.")
    ELSE IF Includes(msg, "ALPHA_VANTAGE_API_KEY")
         THEN Frame("error", "Alpha Vantage API key is not configured.")
         ELSE Frame("error", "Something went wrong. Please try again.")

-----------------------------------------------------------------------------
(* Conversation messages *)

SystemMessage(c) ==
    [role |-> "system", content |-> c, text |-> <<>>, tool_calls |-> <<>>, tool_call_id |-> 0]
HumanMessage(q) ==
    [role |-> "user", content |-> "", text |-> q, tool_calls |-> <<>>, tool_call_id |-> 0]
AIMessage(c, calls) ==
    [role |-> "assistant", content |-> c, text |-> <<>>, tool_calls |-> calls, tool_call_id |-> 0]
ToolMessage(c, id) ==
    [role |-> "tool", content |-> c, text |-> <<>>, tool_calls |-> <<>>, tool_call_id |-> id]

FINANCE_AGENT_SYSTEM_PROMPT == "You are a financial research analyst assistant."

FallbackOutput == "I was unable to complete the research. Please try a simpler question."

\* the tools array of runFinanceAgent
ToolNames == {"get_stock_quote", "get_company_info", "get_company_news"}

\* the null a callback returns for a call whose tool is not found
NoResult ==
    [role |-> "none", content |-> "", text |-> <<>>, tool_calls |-> <<>>, tool_call_id |-> 0]

FindToolOrFirst(name) == IF name \in ToolNames THEN name ELSE "get_stock_quote"

\* tools.find(t => t.name === toolCall.name)
FindTool(name) == IF name \in ToolNames THEN name ELSE Null

-----------------------------------------------------------------------------
(* Data tool adapters *)

\* what the market-data service does for one fetch; "transport_error" is a
\* fetch that rejects
Upstreams == {"ok", "rate_limited", "not_found", "http_error", "transport_error"}

\* getStockQuote / getCompanyInfo / getCompanyNews: "" when the fetch returns
\* data, otherwise the message of the Error thrown
FetchError(name, keySet, up) ==
    IF ~keySet THEN "ALPHA_VANTAGE_API_KEY is not set."
    ELSE IF up = "transport_error" THEN "fetch failed"
    ELSE IF up = "http_error" THEN "Alpha Vantage API error: 500"
    ELSE IF up = "rate_limited" THEN "RATE_LIMITED: Alpha Vantage free tier allows 25 requests/day"
    ELSE IF up = "not_found" /\ name = "get_stock_quote" THEN "No data found for symbol"
    ELSE IF up = "not_found" /\ name = "get_company_info" THEN "No company info found for symbol"
    ELSE ""

\* the text every adapter returns when the Error message includes 'RATE_LIMITED'
RateLimitText == "API rate limit reached. Alpha Vantage free tier allows 25 requests/day."

ToolTextNoRateLimitBranch(name, keySet, up) ==
    LET err == FetchError(name, keySet, up) IN
    IF err = "" THEN "Stock Quote"
    ELSE IF err = "ALPHA_VANTAGE_API_KEY is not set."
         THEN "Error fetching data: ALPHA_VANTAGE_API_KEY is not set."
    ELSE "Error fetching data: Alpha Vantage API error: 500"

\* the func of each DynamicStructuredTool: always a text, never a throw
ToolText(name, keySet, up) ==
    LET err == FetchError(name, keySet, up) IN
    IF err = "" THEN
        IF name = "get_stock_quote" THEN "Stock Quote"
        ELSE IF name = "get_company_info" THEN "Key Metrics"
        ELSE IF up = "not_found" THEN "No recent news found"
        ELSE "Recent News"
    ELSE IF err = "RATE_LIMITED: Alpha Vantage free tier allows 25 requests/day"
         THEN RateLimitText
    ELSE IF name = "get_stock_quote" /\ err = "No data found for symbol"
         THEN "Could not find stock data"
    ELSE IF name = "get_company_info" /\ err = "No company info found for symbol"
         THEN "Could not find company info"
    ELSE IF err = "ALPHA_VANTAGE_API_KEY is not set."
         THEN "Error fetching data: ALPHA_VANTAGE_API_KEY is not set."
    ELSE IF err = "fetch failed"
         THEN "Error fetching data: fetch failed"
    ELSE "Error fetching data: Alpha Vantage API error: 500"

\* toolCall.args: whether a symbol string is given, and the limit if one is
Args(symbolGiven, hasLimit, limit) ==
    [symbol |-> symbolGiven, hasLimit |-> hasLimit, limit |-> limit]

SymbolOnly == Args(TRUE, FALSE, 0)
NoSymbol == Args(FALSE, FALSE, 0)
WithLimit(n) == Args(TRUE, TRUE, n)

SchemaAcceptsAnyLimit(name, args) == args.symbol

\* the zod schema of each tool: symbol is a string, and for get_company_news
\* limit is absent or a number from 1 to 10 (keys the schema does not name
\* are stripped)
SchemaAccepts(name, args) ==
    /\ args.symbol
    /\ (name = "get_company_news" /\ args.hasLimit) =>
          (MinNewsLimit <= args.limit /\ args.limit <= MaxNewsLimit)

\* the limit get_company_news hands to getCompanyNews: .default(5)
NewsLimit(args) == IF args.hasLimit THEN args.limit ELSE DefaultNewsLimit

ToolInvokeUncaught(call, keySet, up) ==
    IF ~SchemaAccepts(call.name, call.args) \/ FetchError(call.name, keySet, up) # ""
    THEN [threw |-> TRUE, text |-> FetchError(call.name, keySet, up)]
    ELSE [threw |-> FALSE, text |-> ToolText(call.name, keySet, up)]

\* StructuredTool.invoke(args): the schema is parsed before func runs, and
\* arguments that do not match it make invoke reject
ToolInvoke(call, keySet, up) ==
    IF ~SchemaAccepts(call.name, call.args)
    THEN [threw |-> TRUE, text |-> "Received tool input did not match expected schema"]
    ELSE [threw |-> FALSE, text |-> ToolText(call.name, keySet, up)]

\* what one tool.invoke did: whether it rejected, whether func ran, the limit
\* handed to getCompanyNews (0 for the other tools), whether the fetch was
\* made and what the service answered
NoExecution ==
    [threw |-> FALSE, called |-> FALSE, limit |-> 0, fetched |-> FALSE, up |-> "none"]

Execution(call, keySet, up) ==
    LET ok == SchemaAccepts(call.name, call.args) IN
    [threw |-> ToolInvoke(call, keySet, up).threw,
     called |-> ok,
     limit |-> IF ok /\ call.name = "get_company_news" THEN NewsLimit(call.args) ELSE 0,
     fetched |-> ok /\ keySet,
     up |-> IF ok /\ keySet THEN up ELSE "none"]

MissingResultId(call) == 0

\* the id the callback tags its ToolMessage with
ResultId(call) == call.id

\* the async callback of toolCalls.map, part_003 lines 246-269, from the
\* settling of tool.invoke on
ToolCallback(call, keySet, up) ==
    LET r == ToolInvoke(call, keySet, up) IN
    IF r.threw
    THEN ToolMessage("Error: Received tool input did not match expected schema", ResultId(call))
    ELSE ToolMessage(r.text, ResultId(call))

-----------------------------------------------------------------------------
(* The model's replies *)

Call(name, args) == [name |-> name, args |-> args]

DefaultBatch == << Call("get_stock_quote", SymbolOnly) >>

VariedBatches ==
    { << Call("get_weather", SymbolOnly) >>,
      << Call("get_stock_quote", NoSymbol) >>,
      << Call("get_company_info", SymbolOnly), Call("get_company_news", SymbolOnly) >>,
      << Call("get_stock_quote", SymbolOnly), Call("get_weather", SymbolOnly),
         Call("get_company_news", WithLimit(3)) >>,
      << Call("get_company_news", WithLimit(0)), Call("get_company_news", WithLimit(11)) >> }

\* the provider gives every call of a run its own id
WithIds(batch, first) ==
    [j \in 1..Len(batch) |->
        [name |-> batch[j].name, args |-> batch[j].args, id |-> first + j - 1]]

ReplyTexts == {"NVDA is up 2% today.", "I can only help with financial research."}

-----------------------------------------------------------------------------
(* Initial state *)

\* the requests one process serves together in the two-request model
Requests == {1, 2}

\* a request that has not reached POST yet
NotArrived ==
    [pc |-> "waiting", loop |-> "idle", i |-> 0, query |-> <<>>, script |-> <<>>,
     at |-> 1, toolCalls |-> <<>>, up |-> "ok"]

PairInit ==
    /\ requests = [r \in Requests |-> NotArrived]
    /\ arrays = [a \in Requests |-> <<>>]
    /\ streams = [r \in Requests |-> <<>>]

\* no setTimeout pending
NoTimer == [q |-> <<>>, selectedSongs |-> <<>>, set |-> FALSE]

\* the Spotify AI page after its first render: the effect has run with an
\* empty query and set showResults to false
SpotifyInit ==
    /\ selectedSongs = <<>>
    /\ searchQuery = <<>>
    /\ filteredSongs = <<>>
    /\ showResults = FALSE
    /\ rendered = [filteredSongs |-> <<>>, showResults |-> FALSE]
    /\ debounce = NoTimer
    /\ fetches = {}

\* HTMLMediaElement.volume of a new element, 1.0, in thousandths
FullVolume == 1000

\* useState<string | null>(null) of currentThought
NoThought == [shown |-> FALSE, text |-> <<>>]

\* the finance-agent page after its first render
ChatInit ==
    /\ chat = <<>>
    /\ input = <<>>
    /\ isProcessing = FALSE
    /\ currentThought = NoThought
    /\ closure = [isProcessing |-> FALSE]
    /\ runs = <<>>
    /\ submits = 0

\* the layout after its first render: the audio element does not play by
\* itself
AudioInit ==
    /\ isPlaying = FALSE
    /\ audioPaused = TRUE
    /\ volume = FullVolume
    /\ fadeIns = 0
    /\ fadeOuts = 0
    /\ clicks = 0

\* the components outside the single-request endpoint model, before anything
\* has happened in them
OthersAtRest == PairInit /\ SpotifyInit /\ ChatInit /\ AudioInit

\* one request to the endpoint, not yet handled
EndpointAtRest ==
    /\ body = Unparsable
    /\ openaiKey = TRUE
    /\ alphaKey = TRUE
    /\ pc = "parsing"
    /\ frames = <<>>
    /\ closed = FALSE
    /\ closeCalls = 0
    /\ errored = FALSE
    /\ query = <<>>
    /\ loop = "idle"
    /\ messages = <<>>
    /\ i = 0
    /\ toolCalls = <<>>
    /\ tasks = <<>>
    /\ toolResults = <<>>
    /\ executions = <<>>
    /\ modelCalls = 0
    /\ toolRuns = 0
    /\ nextId = 1
    /\ varied = 0

Init ==
    /\ body \in Bodies
    /\ openaiKey \in BOOLEAN
    /\ alphaKey \in BOOLEAN
    /\ pc = "parsing"
    /\ frames = <<>>
    /\ closed = FALSE
    /\ closeCalls = 0
    /\ errored = FALSE
    /\ query = <<>>
    /\ loop = "idle"
    /\ messages = <<>>
    /\ i = 0
    /\ toolCalls = <<>>
    /\ tasks = <<>>
    /\ toolResults = <<>>
    /\ executions = <<>>
    /\ modelCalls = 0
    /\ toolRuns = 0
    /\ nextId = 1
    /\ varied = 0
    /\ OthersAtRest

agentVars == <<query, loop, messages, i, toolCalls, tasks, toolResults,
               executions, modelCalls, toolRuns, nextId, varied>>

-----------------------------------------------------------------------------
(* POST: the stream's start handler *)

\* A second controller.close() throws a TypeError (the controller is already
\* closed or closing). Thrown from the finally block it rejects the promise
\* of start(), and the stream is then errored, its queue dropped, if it is
\* still readable: that is when the frame enqueued before the first close()
\* has not been taken by the response's reader yet. Whether the reader was
\* already waiting when the frame was enqueued is a race between the platform
\* starting to read the response and request.json() settling.
ErroredByDoubleClose(readerWaiting) == ~readerWaiting

\* route.ts lines 32-39 and the finally of line 72: request.json() rejects or
\* body.message throws; the error frame is sent, the controller is closed,
\* and the return runs the finally block, which calls close() once more
RejectBody ==
    /\ pc = "parsing"
    /\ body.kind \in {"unparsable", "null"}
    /\ frames' = Send(frames, Frame("error", "Invalid request body"))
    /\ closed' = TRUE
    /\ closeCalls' = closeCalls + 2
    /\ \E readerWaiting \in BOOLEAN : errored' = ErroredByDoubleClose(readerWaiting)
    /\ pc' = "closed"
    /\ UNCHANGED <<body, openaiKey, alphaKey, agentVars>>
    /\ UNCHANGED otherVars

\* route.ts lines 41-45 and the finally of line 72
RejectMessage ==
    /\ pc = "parsing"
    /\ body.kind = "object"
    /\ ~ValidMessage(body.message)
    /\ frames' = Send(frames, Frame("error", "Please provide a message"))
    /\ closed' = TRUE
    /\ closeCalls' = closeCalls + 2
    /\ \E readerWaiting \in BOOLEAN : errored' = ErroredByDoubleClose(readerWaiting)
    /\ pc' = "closed"
    /\ UNCHANGED <<body, openaiKey, alphaKey, agentVars>>
    /\ UNCHANGED otherVars

\* route.ts lines 47-54 with part_003 lines 172-182, 211-215: the message is
\* normalised, the thought frame sent, and getOpenAIKey throws inside
\* runFinanceAgent; the catch block sends the error frame, finally closes
MissingModelKey ==
    /\ pc = "parsing"
    /\ body.kind = "object"
    /\ ValidMessage(body.message)
    /\ ~openaiKey
    /\ query' = Normalize(body.message.str)
    /\ frames' = Send(Send(frames, Frame("thought", "Researching...")),
                      ErrorFrame(OpenAIKeyError))
    /\ loop' = "failed"
    /\ closed' = TRUE
    /\ closeCalls' = closeCalls + 1
    /\ pc' = "closed"
    /\ UNCHANGED <<body, openaiKey, alphaKey, errored, messages, i, toolCalls,
                   tasks, toolResults, executions, modelCalls, toolRuns,
                   nextId, varied>>
    /\ UNCHANGED otherVars

\* route.ts lines 47-54 with part_003 lines 200-228: the conversation is
\* created and the first llm.invoke issued
StartAgent ==
    /\ pc = "parsing"
    /\ body.kind = "object"
    /\ ValidMessage(body.message)
    /\ openaiKey
    /\ query' = Normalize(body.message.str)
    /\ frames' = Send(frames, Frame("thought", "Researching..."))
    /\ messages' = << SystemMessage(FINANCE_AGENT_SYSTEM_PROMPT), HumanMessage(query') >>
    /\ i' = 0
    /\ loop' = "awaiting-model"
    /\ modelCalls' = modelCalls + 1
    /\ pc' = "running"
    /\ UNCHANGED <<body, openaiKey, alphaKey, closed, closeCalls, errored,
                   toolCalls, tasks, toolResults, executions, toolRuns,
                   nextId, varied>>
    /\ UNCHANGED otherVars

-----------------------------------------------------------------------------
(* runFinanceAgent: the tool-calling loop, and the endpoint's continuation *)

PushReplyTrimmed(msgs, response) == Append(Tail(msgs), response)

\* messages.push(response), part_003 line 231
PushReply(msgs, response) == Append(msgs, response)

ResultFrameFallback(output) ==
    Frame("message", "I was unable to complete the research. Please try a simpler question.")

\* route.ts line 56
ResultFrame(output) == Frame("message", output)

CatchFramesSilent(fs, msg) == fs

\* route.ts lines 60-70: the catch block sends one error frame
CatchFrames(fs, msg) == Send(fs, ErrorFrame(msg))

\* the synchronous part of each callback of toolCalls.map (lines 246-253,
\* 265-268): a found tool is invoked and the callback waits for it, an
\* unknown one makes the callback return null at once
StartTask(call) == IF FindTool(call.name) # Null THEN "running" ELSE "settled"

AllSettledNever(ts) == FALSE

AnySettled(ts) == \E j \in 1..Len(ts) : ts[j] = "settled"

\* Promise.all resolves when every callback has returned
AllSettled(ts) == \A j \in 1..Len(ts) : ts[j] = "settled"

\* part_003 lines 273-277: the results are pushed in the order of the calls,
\* nulls skipped
RECURSIVE AppendResults(_, _)
AppendResults(msgs, results) ==
    IF results = <<>> THEN msgs
    ELSE AppendResults(
            IF Head(results) # NoResult THEN Append(msgs, Head(results)) ELSE msgs,
            Tail(results))

LoopContinuesInclusive(n) == n <= maxIterations

\* the loop bound of line 224, tested after i++
LoopContinues(n) == n < maxIterations

RegisteredCount(calls) ==
    Cardinality({j \in 1..Len(calls) : FindTool(calls[j].name) # Null})

\* llm.invoke resolves with a reply that carries no tool calls: the reply is
\* pushed, runFinanceAgent returns its content, the endpoint sends the
\* message frame and the finally block closes the stream
ModelAnswers ==
    /\ loop = "awaiting-model"
    /\ \E text \in ReplyTexts :
        /\ messages' = PushReply(messages, AIMessage(text, <<>>))
        /\ frames' = Send(frames, ResultFrame(text))
    /\ loop' = "done"
    /\ closed' = TRUE
    /\ closeCalls' = closeCalls + 1
    /\ pc' = "closed"
    /\ UNCHANGED <<body, openaiKey, alphaKey, errored, query, i, toolCalls,
                   tasks, toolResults, executions, modelCalls, toolRuns,
                   nextId, varied>>
    /\ UNCHANGED otherVars

\* llm.invoke resolves with tool calls: the reply is pushed and
\* toolCalls.map starts one callback per call
ModelRequestsTools ==
    /\ loop = "awaiting-model"
    /\ \E batch \in {DefaultBatch} \cup (IF varied < MaxVaried THEN VariedBatches ELSE {}) :
        LET calls == WithIds(batch, nextId) IN
        /\ messages' = PushReply(messages, AIMessage("", calls))
        /\ toolCalls' = calls
        /\ tasks' = [j \in 1..Len(calls) |-> StartTask(calls[j])]
        /\ toolResults' = [j \in 1..Len(calls) |-> NoResult]
        /\ executions' = [j \in 1..Len(calls) |-> NoExecution]
        /\ toolRuns' = toolRuns + RegisteredCount(calls)
        /\ nextId' = nextId + Len(calls)
        /\ varied' = IF batch = DefaultBatch THEN varied ELSE varied + 1
    /\ loop' = "executing-tools"
    /\ UNCHANGED <<body, openaiKey, alphaKey, pc, frames, closed, closeCalls,
                   errored, query, i, modelCalls>>
    /\ UNCHANGED otherVars

\* llm.invoke rejects: the error leaves runFinanceAgent and reaches the
\* catch block of POST, then finally closes the stream
ModelFails ==
    /\ loop = "awaiting-model"
    /\ \E msg \in ModelErrors :
        frames' = CatchFrames(frames, msg)
    /\ loop' = "failed"
    /\ closed' = TRUE
    /\ closeCalls' = closeCalls + 1
    /\ pc' = "closed"
    /\ UNCHANGED <<body, openaiKey, alphaKey, errored, query, messages, i,
                   toolCalls, tasks, toolResults, executions, modelCalls,
                   toolRuns, nextId, varied>>
    /\ UNCHANGED otherVars

\* one tool.invoke settles and its callback returns its ToolMessage
ToolSettles ==
    /\ \E j \in 1..Len(tasks) :
        /\ tasks[j] = "running"
        /\ \E up \in {"ok"} \cup
                     (IF /\ varied < MaxVaried
                         /\ alphaKey
                         /\ SchemaAccepts(toolCalls[j].name, toolCalls[j].args)
                      THEN Upstreams ELSE {}) :
            /\ toolResults' = [toolResults EXCEPT ![j] = ToolCallback(toolCalls[j], alphaKey, up)]
            /\ executions' = [executions EXCEPT ![j] = Execution(toolCalls[j], alphaKey, up)]
            /\ varied' = IF up = "ok" THEN varied ELSE varied + 1
        /\ tasks' = [tasks EXCEPT ![j] = "settled"]
    /\ UNCHANGED <<body, openaiKey, alphaKey, pc, frames, closed, closeCalls,
                   errored, query, loop, messages, i, toolCalls, modelCalls,
                   toolRuns, nextId>>
    /\ UNCHANGED otherVars

\* Promise.all resolves: the results are pushed and the for loop goes round;
\* either the next llm.invoke is issued, or the loop is left, the fallback
\* returned and sent as the message frame, and the stream closed
JoinTools ==
    /\ loop = "executing-tools"
    /\ AllSettled(tasks)
    /\ messages' = AppendResults(messages, toolResults)
    /\ i' = i + 1
    /\ IF LoopContinues(i')
       THEN /\ loop' = "awaiting-model"
            /\ modelCalls' = modelCalls + 1
            /\ UNCHANGED <<pc, frames, closed, closeCalls>>
       ELSE /\ loop' = "exhausted"
            /\ frames' = Send(frames, ResultFrame(FallbackOutput))
            /\ closed' = TRUE
            /\ closeCalls' = closeCalls + 1
            /\ pc' = "closed"
            /\ UNCHANGED modelCalls
    /\ UNCHANGED <<body, openaiKey, alphaKey, errored, query, toolCalls,
                   tasks, toolResults, executions, toolRuns, nextId, varied>>
    /\ UNCHANGED otherVars

Next ==
    \/ RejectBody
    \/ RejectMessage
    \/ MissingModelKey
    \/ StartAgent
    \/ ModelAnswers
    \/ ModelRequestsTools
    \/ ModelFails
    \/ ToolSettles
    \/ JoinTools

Spec == Init /\ [][Next]_vars

-----------------------------------------------------------------------------
(* Observations on the conversation and the frames, used by the properties *)

Positions(role) == {p \in 1..Len(messages) : messages[p].role = role}

\* the tool-result messages that follow position p and carry the id
ResultsAfter(p, id) ==
    {q \in (p + 1)..Len(messages) :
        messages[q].role = "tool" /\ messages[q].tool_call_id = id}

\* the position of the latest assistant message before position q (0 if none)
LastAssistantBefore(q) ==
    LET ps == {p \in Positions("assistant") : p < q} IN
    IF ps = {} THEN 0 ELSE CHOOSE p \in ps : \A r \in ps : r <= p

FramesOfType(t) == {k \in 1..Len(frames) : frames[k].type = t}

TerminalFrames == FramesOfType("message") \cup FramesOfType("error")

\* the assistant messages that carry tool calls
ToolReplies == {p \in Positions("assistant") : messages[p].tool_calls # <<>>}

-----------------------------------------------------------------------------
(* Claims *)

\* C1: at every model invocation after the first, each tool call carried by
\* every assistant message of the conversation is followed by exactly one
\* tool-result message with the same tool_call_id, also for calls whose name
\* is not a registered tool. Stated as claimed; the code drops the result of
\* an unknown tool.
C1_EveryCallHasOneResult ==
    (loop = "awaiting-model" /\ modelCalls > 1) =>
        \A p \in Positions("assistant") :
            \A k \in 1..Len(messages[p].tool_calls) :
                Cardinality(ResultsAfter(p, messages[p].tool_calls[k].id)) = 1

\* C2: once the stream is closed the frames sent hold exactly one terminal frame
\* (type message or error), and never more than one at any time.
C2_ExactlyOneTerminalFrame ==
    /\ Cardinality(TerminalFrames) <= 1
    /\ closed => Cardinality(TerminalFrames) = 1

C2_Witness ==
    /\ closed
    /\ loop = "failed"
    /\ modelCalls = 3
    /\ Cardinality(FramesOfType("error")) = 1

\* C3: the model is invoked at most 10 times in a run; when 10 replies have
\* carried tool calls and the run is over, the frames are the thought frame
\* followed by the fixed fallback text in a message frame, and no error frame.
C3_IterationCeiling ==
    /\ modelCalls <= 10
    /\ Cardinality(ToolReplies) <= 10
    /\ (Cardinality(ToolReplies) = 10 /\ pc = "closed") =>
          /\ loop = "exhausted"
          /\ frames = << Frame("thought", "Researching..."),
                         Frame("message", "I was unable to complete the research. Please try a simpler question.") >>
          /\ FramesOfType("error") = {}

C3_Witness ==
    /\ pc = "closed"
    /\ Cardinality(ToolReplies) = 10
    /\ modelCalls = 10

\* C4: when the next model invocation has been issued no tool execution of
\* the iteration before is still running, and every registered call of the
\* latest assistant message has its result in the conversation after it,
\* whatever the order in which the executions settled.
C4_JoinBeforeNextInvocation ==
    (loop = "awaiting-model" /\ modelCalls > 1) =>
        /\ \A j \in 1..Len(tasks) : tasks[j] # "running"
        /\ LET p == LastAssistantBefore(Len(messages) + 1) IN
           /\ p > 0
           /\ \A k \in 1..Len(messages[p].tool_calls) :
                 messages[p].tool_calls[k].name \in ToolNames =>
                    Cardinality(ResultsAfter(p, messages[p].tool_calls[k].id)) = 1
           /\ Len(messages) - p = RegisteredCount(messages[p].tool_calls)

\* two registered tools ran concurrently and the second settled first
C4_Witness ==
    /\ loop = "executing-tools"
    /\ Len(tasks) = 2
    /\ tasks[1] = "running"
    /\ tasks[2] = "settled"
    /\ modelCalls = 2

\* C5: when the first reply carries no tool calls the frames are the thought
\* frame and one message frame holding the reply's text, the stream is
\* closed, the model was invoked once and no tool was executed.
C5_DirectAnswer ==
    (loop = "done" /\ Len(messages) = 3) =>
        /\ frames = << Frame("thought", "Researching..."),
                       Frame("message", messages[3].content) >>
        /\ messages[3].content \in ReplyTexts
        /\ closed
        /\ modelCalls = 1
        /\ toolRuns = 0

C5_Witness ==
    /\ loop = "done"
    /\ Len(messages) = 3
    /\ frames[Len(frames)].content = "I can only help with financial research."

\* C6: in every run whose first reply carries exactly one tool call and whose
\* second reply carries none, the conversation at completion is: system
\* message, user message, assistant message with the call, one tool-result
\* message carrying the call's id, final assistant message. Stated as
\* claimed; a call to an unknown tool leaves no tool-result message.
C6_OneCallConversation ==
    (/\ loop = "done"
     /\ modelCalls = 2
     /\ Len(messages) >= 3
     /\ Len(messages[3].tool_calls) = 1) =>
        /\ Len(messages) = 5
        /\ messages[1] = SystemMessage(FINANCE_AGENT_SYSTEM_PROMPT)
        /\ messages[2] = HumanMessage(query)
        /\ messages[3].role = "assistant"
        /\ messages[4].role = "tool"
        /\ messages[4].tool_call_id = messages[3].tool_calls[1].id
        /\ messages[5].role = "assistant"
        /\ messages[5].tool_calls = <<>>

\* C7: every tool-result message of the conversation carries the id of a call
\* of the latest assistant message before it, and no two tool-result messages
\* carry the same id (the model's call ids being distinct).
C7_NoOrphanResults ==
    /\ \A q \in Positions("tool") :
          LET p == LastAssistantBefore(q) IN
          /\ p > 0
          /\ \E k \in 1..Len(messages[p].tool_calls) :
                messages[p].tool_calls[k].id = messages[q].tool_call_id
    /\ \A q1, q2 \in Positions("tool") :
          q1 # q2 => messages[q1].tool_call_id # messages[q2].tool_call_id

\* results of two iterations, one of them with two concurrent calls
C7_Witness ==
    /\ Cardinality(Positions("tool")) >= 3
    /\ Cardinality(ToolReplies) = 2

\* C8: the conversation is append-only: once created its first message is the
\* system prompt and its second the user query, and every step leaves the
\* messages already in it unchanged and in place.
C8_AppendOnly ==
    /\ [](loop \in {"awaiting-model", "executing-tools", "done", "exhausted"} =>
            /\ Len(messages) >= 2
            /\ messages[1] = SystemMessage(FINANCE_AGENT_SYSTEM_PROMPT)
            /\ messages[2] = HumanMessage(query))
    /\ [][ /\ Len(messages') >= Len(messages)
           /\ SubSeq(messages', 1, Len(messages)) = messages ]_vars

C8_Witness ==
    /\ loop = "exhausted"
    /\ Len(messages) > 22

\* C9 as claimed: a message that is missing, not a string, empty or only
\* whitespace gets the single frame error 'Please provide a message', and an
\* unparsable body the single frame error 'Invalid request body'. The JSON
\* value null is parsable and has no message.
C9_AsClaimed ==
    LET v == body.message
        blank == \A r \in 1..Len(v.str) : v.str[r][1] = " "
        missing == body.kind = "null" \/ (body.kind = "object" /\ (v.type # "string" \/ blank))
    IN
    /\ (missing /\ pc = "closed") =>
          frames = << Frame("error", "Please provide a message") >>
    /\ (body.kind = "unparsable" /\ pc = "closed") =>
          frames = << Frame("error", "Invalid request body") >>

\* C9 as amended: a body other than null whose message is missing, not a
\* string, empty or only whitespace gets the single frame error 'Please
\* provide a message'; a body that is not parsable JSON, or is the JSON value
\* null, gets the single frame error 'Invalid request body'; in all these
\* cases no thought or message frame is sent, the model is never invoked and
\* no tool is executed.
C9_InvalidInputRejected ==
    LET v == body.message
        blank == \A r \in 1..Len(v.str) : v.str[r][1] = " "
        rejected == body.kind = "object" /\ (v.type # "string" \/ blank)
        invalid == body.kind \in {"unparsable", "null"}
    IN
    /\ (rejected \/ invalid) =>
          /\ modelCalls = 0
          /\ toolRuns = 0
          /\ messages = <<>>
          /\ FramesOfType("thought") = {}
          /\ FramesOfType("message") = {}
    /\ (rejected /\ pc = "closed") =>
          frames = << Frame("error", "Please provide a message") >>
    /\ (invalid /\ pc = "closed") =>
          frames = << Frame("error", "Invalid request body") >>

C9_Witness ==
    /\ pc = "closed"
    /\ body = Obj(Str(<< <<" ", 3>> >>))
    /\ frames = << Frame("error", "Please provide a message") >>

\* C10: for a message longer than 500 characters, the query the endpoint
\* passes to the agent is the query it passes when given that truncated
\* string itself as the message (normalising is idempotent). Stated as
\* claimed; a cut that lands just after a whitespace character leaves a
\* trailing blank that the second normalisation trims.
C10_NormalizeIdempotent ==
    (/\ messages # <<>>
     /\ body.kind = "object"
     /\ ValidMessage(body.message)
     /\ StrLen(body.message.str) > 500) =>
        /\ ValidMessage(Str(query))
        /\ Normalize(query) = query

\* ---------------------------------------------------------------------------
\* Observations on the executions of the current iteration

\* the calls of the iteration whose fetch met the answer `up` of the service
CallsMeeting(up) == { j \in DOMAIN executions : executions[j].up = up }

\* the Promise.all of the iteration has resolved and its results are pushed
Joined == toolCalls # <<>> /\ loop # "executing-tools"

InConversation(m) == \E p \in DOMAIN messages : messages[p] = m

\* the join of the iteration was followed by one more llm.invoke
ModelInvokedAgain == modelCalls = i + 1

\* no error frame while no model invocation has failed
NoErrorFrameWithoutFailure == (loop # "failed") => (FramesOfType("error") = {})

Executed ==
    { j \in DOMAIN tasks : tasks[j] = "settled" /\ FindTool(toolCalls[j].name) # Null }

\* every text a func of the three adapters returns
AdapterTexts ==
    { "Stock Quote", "Key Metrics", "Recent News", "No recent news found",
      RateLimitText, "Could not find stock data", "Could not find company info",
      "Error fetching data: ALPHA_VANTAGE_API_KEY is not set.",
      "Error fetching data: fetch failed",
      "Error fetching data: Alpha Vantage API error: 500" }

SchemaErrorText == "Error: Received tool input did not match expected schema"

OpenAIKeyFrame == Frame("error", "OpenAI API key is not configured.")
AlphaKeyFrame == Frame("error", "Alpha Vantage API key is not configured.")
GenericErrorFrame == Frame("error", "Something went wrong. Please try again.")

Sent(f) == \E k \in DOMAIN frames : frames[k] = f

ValidRequest == body.kind = "object" /\ ValidMessage(body.message)

\* C13: when ALPHA_VANTAGE_API_KEY is absent and the model has requested a
\* data tool, the request ends with the error frame 'Alpha Vantage API key is
\* not configured.' and without a message frame. Stated as claimed, for the
\* runs in which no model invocation fails; the code turns the missing key
\* into a tool result and ends with a message frame.
C13_MissingDataKeyEndsInErrorFrame ==
    (/\ ~alphaKey
     /\ toolRuns > 0
     /\ pc = "closed"
     /\ loop # "failed") =>
        /\ frames[Len(frames)] = AlphaKeyFrame
        /\ FramesOfType("message") = {}

\* C14: when OPENAI_API_KEY is absent, a valid request ends with the thought
\* frame followed by the one error frame 'OpenAI API key is not configured.',
\* and neither the model nor a tool is ever invoked.
C14_MissingModelKey ==
    ~openaiKey =>
        /\ modelCalls = 0
        /\ toolRuns = 0
        /\ messages = <<>>
        /\ (ValidRequest /\ pc = "closed") =>
              frames = << Frame("thought", "Researching..."), OpenAIKeyFrame >>

C14_Witness ==
    /\ ~openaiKey
    /\ ValidRequest
    /\ pc = "closed"
    /\ closed
    /\ Sent(OpenAIKeyFrame)

\* C15: the frame 'OpenAI API key is not configured.' is sent only when
\* OPENAI_API_KEY is absent, the frame 'Alpha Vantage API key is not
\* configured.' only when ALPHA_VANTAGE_API_KEY is absent; a model-service
\* error whose text mentions a key name gets the generic frame. Stated as
\* claimed; the code picks the frame by the text of the error.
C15_KeyFramesOnlyWhenKeyAbsent ==
    /\ Sent(OpenAIKeyFrame) => ~openaiKey
    /\ Sent(AlphaKeyFrame) => ~alphaKey

\* C16: every request that fails (validation failure, a missing credential, a
\* model invocation that throws in any iteration) ends with exactly one error
\* frame, no message frame, and no text of a tool that already ran. Stated as
\* claimed; a request whose tools ran without ALPHA_VANTAGE_API_KEY ends with
\* a message frame (C13).
C16_FailedRequestEndsInOneErrorFrame ==
    (/\ pc = "closed"
     /\ \/ ~ValidRequest
        \/ ~openaiKey
        \/ ~alphaKey /\ toolRuns > 0
        \/ loop = "failed") =>
        /\ Cardinality(FramesOfType("error")) = 1
        /\ FramesOfType("message") = {}
        /\ \A k \in DOMAIN frames : frames[k].content \notin AdapterTexts

\* C17: once a message or error frame is sent no further frame is sent and
\* the stream is closed, and nothing is enqueued after close(). Stated as
\* claimed; on the two reject paths close() is called a second time and the
\* stream may end errored instead of closed.
C17_TerminalFrameThenClosed ==
    /\ []((TerminalFrames # {}) => (closed /\ ~errored))
    /\ [][(TerminalFrames # {} \/ closed) => frames' = frames]_vars

ThoughtFrame == Frame("thought", "Researching...")

\* C18: for a request that passes validation the frames are the one thought
\* frame, sent before the first model invocation, then one terminal frame;
\* every frame sent is appended after those sent before it, and the stream
\* never loses a frame by becoming errored.
C18_ThoughtThenTerminal ==
    /\ [](ValidRequest =>
            /\ ~errored
            /\ Cardinality(FramesOfType("thought")) <= 1
            /\ (pc = "parsing") => (frames = <<>> /\ modelCalls = 0)
            /\ (pc = "running") => (frames = << ThoughtFrame >>)
            /\ (pc = "closed") =>
                  /\ Len(frames) = 2
                  /\ frames[1] = ThoughtFrame
                  /\ frames[2].type \in {"message", "error"})
    /\ [][/\ Len(frames') >= Len(frames)
          /\ SubSeq(frames', 1, Len(frames)) = frames]_vars

C18_Witness ==
    /\ ValidRequest
    /\ pc = "closed"
    /\ loop = "done"
    /\ toolRuns > 0
    /\ frames[1] = ThoughtFrame
    /\ frames[2].type = "message"

\* the calls of the iteration that name no registered tool
UnknownCalls == { j \in DOMAIN toolCalls : toolCalls[j].name \notin ToolNames }

\* the calls of the iteration that name a registered tool
KnownCalls == { j \in DOMAIN toolCalls : toolCalls[j].name \in ToolNames }

HasResultFor(id) ==
    \E p \in Positions("tool") : messages[p].tool_call_id = id

\* what C19 says of an unknown call short of the loop going on: nothing is
\* invoked and nothing raised for it, it gets no tool-result message, and the
\* registered calls of its iteration have their results in the conversation
\* once the iteration is joined
UnknownCallDropped(j) ==
    /\ executions[j] = NoExecution
    /\ toolResults[j] = NoResult
    /\ ~HasResultFor(toolCalls[j].id)
    /\ NoErrorFrameWithoutFailure
    /\ Joined => \A k \in KnownCalls :
                    /\ toolResults[k].tool_call_id = toolCalls[k].id
                    /\ InConversation(toolResults[k])

\* C19 as stated: a call naming an unknown tool is dropped without an error
\* and without a result, the other calls of the iteration have their
\* results, and the loop proceeds to the next model invocation.
C19_AsClaimed ==
    \A j \in UnknownCalls :
        /\ UnknownCallDropped(j)
        /\ Joined => ModelInvokedAgain

\* C19 amended: as above, except that after the last permitted iteration
\* there is no next model invocation: the loop is exhausted and the request
\* ends with the fallback text in a message frame.
C19_UnknownToolDropped ==
    \A j \in UnknownCalls :
        /\ UnknownCallDropped(j)
        /\ Joined => IF LoopContinues(i)
                      THEN ModelInvokedAgain
                      ELSE /\ loop = "exhausted"
                           /\ frames[Len(frames)] = Frame("message", FallbackOutput)

C19_Witness ==
    /\ UnknownCalls # {}
    /\ KnownCalls # {}
    /\ Joined
    /\ loop = "awaiting-model"
    /\ modelCalls = 2

\* the count the claim expects get_company_news to fetch with
Clamp(n) ==
    IF n < MinNewsLimit THEN MinNewsLimit
    ELSE IF n > MaxNewsLimit THEN MaxNewsLimit
    ELSE n

\* the executed calls of get_company_news
NewsCalls == { j \in Executed : toolCalls[j].name = "get_company_news" }

\* C20 as stated: get_company_news called with a count outside 1..10 fetches
\* with the count clamped into 1..10, and with no count fetches 5.
C20_AsClaimed ==
    \A j \in NewsCalls :
        toolCalls[j].args.symbol =>
            /\ executions[j].called
            /\ executions[j].limit =
                  IF toolCalls[j].args.hasLimit
                  THEN Clamp(toolCalls[j].args.limit)
                  ELSE DefaultNewsLimit

\* C20 amended: get_company_news called with a count outside 1..10 is
\* rejected by the schema: the adapter does not run, nothing is fetched, and
\* the tool result is the loop's "Error: ..." text; with a count in 1..10 it
\* fetches that count, and with no count it fetches 5.
C20_LimitValidatedNotClamped ==
    \A j \in NewsCalls :
        toolCalls[j].args.symbol =>
            IF /\ toolCalls[j].args.hasLimit
               /\ toolCalls[j].args.limit \notin MinNewsLimit..MaxNewsLimit
            THEN /\ executions[j].threw
                 /\ ~executions[j].called
                 /\ ~executions[j].fetched
                 /\ toolResults[j] = ToolMessage(SchemaErrorText, toolCalls[j].id)
            ELSE /\ ~executions[j].threw
                 /\ executions[j].called
                 /\ executions[j].fetched = alphaKey
                 /\ executions[j].limit =
                       IF toolCalls[j].args.hasLimit
                       THEN toolCalls[j].args.limit
                       ELSE DefaultNewsLimit

C20_Witness ==
    /\ \E j \in NewsCalls : toolCalls[j].args = WithLimit(11) /\ executions[j].threw
    /\ \E j \in NewsCalls : toolCalls[j].args = WithLimit(0) /\ executions[j].threw
    /\ Joined

-----------------------------------------------------------------------------
(* Concurrent requests: two POST calls served by one process.             *)
(*                                                                         *)
(* What a request owns is what its calls allocate: the messages array of  *)
(* runFinanceAgent (part_003 lines 218-221), the tools array (204-208,    *)
(* never mutated), and the stream controller of POST with its send        *)
(* closure (route.ts 20-26). The module level holds constants only        *)
(* (AGENT_CONFIG, the prompt). The model and tool responses of a request  *)
(* are a script fixed when the request arrives, so that the same request  *)
(* can be run alone with the same responses.                              *)

AnswerReply(text) == [kind |-> "answer", text |-> text, batch |-> <<>>, up |-> "ok", msg |-> {}]
ToolsReply(batch, up) == [kind |-> "tools", text |-> "", batch |-> batch, up |-> up, msg |-> {}]
FailReply(msg) == [kind |-> "fail", text |-> "", batch |-> <<>>, up |-> "ok", msg |-> msg]

\* the responses a request may meet: a direct answer; one tool round and an
\* answer; a rate-limited round with an unknown tool, then a failing model;
\* a model that asks for tools in every reply
Scripts ==
    { << AnswerReply("I can only help with financial research.") >>,
      << ToolsReply(DefaultBatch, "ok"), AnswerReply("NVDA is up 2% today.") >>,
      << ToolsReply(<< Call("get_company_info", SymbolOnly), Call("get_weather", SymbolOnly) >>,
                    "rate_limited"),
         FailReply({}) >>,
      [k \in 1..maxIterations |-> ToolsReply(DefaultBatch, "ok")] }

PairQueries == { << <<"a", 2>> >>, << <<"b", 3>> >> }

SharedArray(r) == 1

\* const messages = [...] inside runFinanceAgent: every call allocates its
\* own array
OwnArray(r) == r

\* the provider's ids for the calls of one reply of one request
FirstId(r, n) == 100 * r + 10 * n + 1

\* the locals of one run: the conversation, the frames sent, the loop's
\* position and index, the calls of the iteration and the service's answer
Local(conv, fs, rq) ==
    [conv |-> conv, frames |-> fs, loop |-> rq.loop, i |-> rq.i,
     toolCalls |-> rq.toolCalls, up |-> rq.up]

\* llm.invoke settles with `reply` (part_003 lines 228-243, route.ts 56-70)
AfterReply(st, reply, first) ==
    IF reply.kind = "answer"
    THEN [st EXCEPT !.conv = PushReply(@, AIMessage(reply.text, <<>>)),
                    !.frames = Send(@, ResultFrame(reply.text)),
                    !.loop = "done"]
    ELSE IF reply.kind = "fail"
    THEN [st EXCEPT !.frames = CatchFrames(@, reply.msg),
                    !.loop = "failed"]
    ELSE [st EXCEPT !.conv = PushReply(@, AIMessage("", WithIds(reply.batch, first))),
                    !.toolCalls = WithIds(reply.batch, first),
                    !.up = reply.up,
                    !.loop = "executing-tools"]

\* the results of Promise.all over the calls of the iteration
BatchResults(calls, up) ==
    [j \in 1..Len(calls) |->
        IF FindTool(calls[j].name) # Null
        THEN ToolCallback(calls[j], TRUE, up)
        ELSE NoResult]

\* Promise.all resolves (part_003 lines 273-282, route.ts 56)
AfterJoin(st) ==
    [st EXCEPT !.conv = AppendResults(@, BatchResults(st.toolCalls, st.up)),
               !.i = @ + 1,
               !.loop = IF LoopContinues(st.i + 1) THEN "awaiting-model" ELSE "exhausted",
               !.frames = IF LoopContinues(st.i + 1) THEN @
                          ELSE Send(@, ResultFrame(FallbackOutput))]

\* the locals of a run at its start (route.ts 51, part_003 218-221)
Started(q) ==
    [conv |-> << SystemMessage(FINANCE_AGENT_SYSTEM_PROMPT), HumanMessage(q) >>,
     frames |-> << Frame("thought", "Researching...") >>,
     loop |-> "awaiting-model", i |-> 0, toolCalls |-> <<>>, up |-> "ok"]

\* the request run alone: its locals after the first n replies of its script
\* have been dealt with
RECURSIVE Alone(_, _, _, _)
Alone(r, q, script, n) ==
    IF n = 0 THEN Started(q)
    ELSE LET before == Alone(r, q, script, n - 1)
             replied == AfterReply(before, script[n], FirstId(r, before.i))
         IN  IF replied.loop = "executing-tools" THEN AfterJoin(replied) ELSE replied

\* write the locals of request r back
Store(r, st, rq) ==
    /\ arrays' = [arrays EXCEPT ![OwnArray(r)] = st.conv]
    /\ streams' = [streams EXCEPT ![r] = st.frames]
    /\ requests' = [requests EXCEPT ![r] =
                       [rq EXCEPT !.loop = st.loop, !.i = st.i,
                                  !.toolCalls = st.toolCalls, !.up = st.up]]

\* a request with a valid message arrives: the thought frame is sent and
\* runFinanceAgent builds its conversation and issues the first llm.invoke
Arrive(r) ==
    /\ requests[r].pc = "waiting"
    /\ \E q \in PairQueries, script \in Scripts :
        Store(r, Started(q),
              [requests[r] EXCEPT !.pc = "running", !.query = q, !.script = script])
    /\ UNCHANGED <<endpointVars, spotifyVars, chatVars, audioVars>>

\* the llm.invoke of request r settles with the next reply of its script
Reply(r) ==
    LET rq == requests[r] IN
    /\ rq.loop = "awaiting-model"
    /\ LET st == AfterReply(Local(arrays[OwnArray(r)], streams[r], rq),
                            rq.script[rq.at], FirstId(r, rq.i))
       IN  Store(r, st, [rq EXCEPT !.at = @ + 1,
                                   !.pc = IF st.loop = "executing-tools"
                                          THEN "running" ELSE "closed"])
    /\ UNCHANGED <<endpointVars, spotifyVars, chatVars, audioVars>>

\* the Promise.all of request r resolves
Join(r) ==
    LET rq == requests[r] IN
    /\ rq.loop = "executing-tools"
    /\ LET st == AfterJoin(Local(arrays[OwnArray(r)], streams[r], rq))
       IN  Store(r, st, [rq EXCEPT !.pc = IF st.loop = "exhausted"
                                          THEN "closed" ELSE "running"])
    /\ UNCHANGED <<endpointVars, spotifyVars, chatVars, audioVars>>

PairNext ==
    \E r \in Requests :
        \/ Arrive(r)
        \/ Reply(r)
        \/ Join(r)

PairStart == EndpointAtRest /\ PairInit /\ SpotifyInit /\ ChatInit /\ AudioInit

PairSpec == PairStart /\ [][PairNext]_vars

\* the locals of the run of request r alone that has made the same progress
AloneNow(r) ==
    LET rq == requests[r]
        done == Alone(r, rq.query, rq.script, rq.at - 1)
    IN  IF rq.loop = "executing-tools"
        THEN AfterReply(Alone(r, rq.query, rq.script, rq.at - 2),
                        rq.script[rq.at - 1],
                        FirstId(r, rq.i))
        ELSE done

\* C21: whatever the interleaving of two requests, the conversation and the
\* frames of each are at every moment those of the same request run alone
\* with the same model and tool responses.
C21_RequestsIsolated ==
    \A r \in Requests :
        requests[r].pc # "waiting" =>
            /\ arrays[r] = AloneNow(r).conv
            /\ streams[r] = AloneNow(r).frames
            /\ requests[r].loop = AloneNow(r).loop

C21_Witness ==
    /\ requests[1].pc = "closed" /\ requests[1].loop = "done"
    /\ requests[2].pc = "closed" /\ requests[2].loop = "exhausted"
    /\ Len(arrays[1]) = 5
    /\ Len(streams[2]) = 2

-----------------------------------------------------------------------------
(* Progress of one request *)

\* Every llm.invoke and every tool.invoke settles (the proviso of C22), and
\* the event loop runs every continuation that is ready: the start handler,
\* and the continuation of Promise.all once all its callbacks have returned.
Fairness ==
    /\ WF_vars(ModelAnswers \/ ModelRequestsTools \/ ModelFails)
    /\ WF_vars(ToolSettles)
    /\ WF_vars(RejectBody \/ RejectMessage \/ MissingModelKey \/ StartAgent)
    /\ WF_vars(JoinTools)

FairSpec == Spec /\ Fairness

ErrorTexts ==
    { "Invalid request body",
      "Please provide a message",
      "OpenAI API key is not configured.",
      "Alpha Vantage API key is not configured.",
      "Something went wrong. Please try again." }

\* C23: the content of every error frame is one of the five fixed strings;
\* the text of the error that was thrown is not sent.
C23_ErrorFramesFixedTexts ==
    \A k \in FramesOfType("error") : frames[k].content \in ErrorTexts

C23_Witness ==
    /\ loop = "failed"
    /\ toolRuns > 0
    /\ Sent(GenericErrorFrame)
    /\ pc = "closed"

-----------------------------------------------------------------------------
(* Spotify AI page (src/unnamed/part_000).                                 *)
(*                                                                         *)
(* A handler of a user event (typing, a click) reads the state of the     *)
(* render it was created in. React commits the updates of a user event,   *)
(* and runs the effects they trigger, before the next event is            *)
(* dispatched, so such a handler together with its commit is one action.  *)
(* Updates made from a timer or after an await are committed by a later   *)
(* render; until then the page shows the results list of the last commit. *)

\* searches that may be in flight together
MaxInFlight == 1

\* "Select up to 3 songs": the bound of handleSelectSong
MaxSelected == 3

\* what the user may type: "", "  a" (short once trimmed), "aa", "bb"
Typed ==
    { <<>>, << <<" ", 2>>, <<"a", 1>> >>, << <<"a", 2>> >>, << <<"b", 2>> >> }

\* data.tracks of /api/spotify/search for a query
Catalog(q) ==
    IF q = << <<"a", 2>> >> THEN << "s1", "s2" >>
    ELSE << "s2", "s3", "s4" >>

\* selectedSongs.find(s => s.id === id)
Find(songs, id) == \E k \in DOMAIN songs : songs[k] = id

\* data.tracks.filter(song => !selectedSongs.find(...)), part_000 lines 85-87
Unselected(tracks, selected) ==
    LET Keep(id) == ~Find(selected, id) IN SelectSeq(tracks, Keep)

\* selectedSongs.filter(s => s.id !== songId)
Without(songs, id) ==
    LET Keep(s) == s # id IN SelectSeq(songs, Keep)

MayAlwaysSelect(selected) == TRUE

\* the test of handleSelectSong, part_000 line 103
MaySelect(selected) == Len(selected) < MaxSelected

\* searchQuery.trim().length < 2
TooShort(q) == StrLen(Trim(q)) < 2

\* The commit that follows a user event's updates. When searchQuery or
\* selectedSongs was set the search effect runs again (part_000 lines
\* 73-100): its cleanup clears the pending timeout, then a short query hides
\* the results and any other query sets a new timeout that holds the query
\* and the selection of this render.
Commit(selected, q, show, rerun) ==
    LET show2 == IF rerun /\ TooShort(q) THEN FALSE ELSE show IN
    /\ selectedSongs' = selected
    /\ searchQuery' = q
    /\ showResults' = show2
    /\ rendered' = [filteredSongs |-> filteredSongs, showResults |-> show2]
    /\ debounce' = IF ~rerun THEN debounce
                   ELSE IF TooShort(q) THEN NoTimer
                   ELSE [q |-> q, selectedSongs |-> selected, set |-> TRUE]
    /\ UNCHANGED <<filteredSongs, fetches>>

\* onChange of the search input, which is disabled once 3 songs are selected
Type ==
    /\ Len(selectedSongs) < MaxSelected
    /\ \E q \in Typed :
        /\ q # searchQuery
        /\ Commit(selectedSongs, q, showResults, TRUE)
    /\ UNCHANGED <<endpointVars, pairVars, chatVars, audioVars>>

\* the setTimeout callback starts the fetch
DebounceFires ==
    /\ debounce.set
    /\ Cardinality(fetches) < MaxInFlight
    /\ fetches' = fetches \cup {debounce}
    /\ debounce' = NoTimer
    /\ UNCHANGED <<selectedSongs, searchQuery, filteredSongs, showResults, rendered>>
    /\ UNCHANGED <<endpointVars, pairVars, chatVars, audioVars>>

\* the fetch of a search settles: with tracks, which are filtered against
\* the selection its effect was created with and shown, or with an error
SearchResponds ==
    /\ \E f \in fetches :
        /\ fetches' = fetches \ {f}
        /\ \E ok \in BOOLEAN :
            IF ok
            THEN /\ filteredSongs' = Unselected(Catalog(f.q), f.selectedSongs)
                 /\ showResults' = TRUE
            ELSE UNCHANGED <<filteredSongs, showResults>>
    /\ UNCHANGED <<selectedSongs, searchQuery, rendered, debounce>>
    /\ UNCHANGED <<endpointVars, pairVars, chatVars, audioVars>>

\* React commits the updates made outside a user event
Render ==
    /\ rendered # [filteredSongs |-> filteredSongs, showResults |-> showResults]
    /\ rendered' = [filteredSongs |-> filteredSongs, showResults |-> showResults]
    /\ UNCHANGED <<selectedSongs, searchQuery, filteredSongs, showResults,
                   debounce, fetches>>
    /\ UNCHANGED <<endpointVars, pairVars, chatVars, audioVars>>

\* a click on a song of the results list that is on the screen
handleSelectSong ==
    /\ rendered.showResults
    /\ \E k \in DOMAIN rendered.filteredSongs :
        /\ MaySelect(selectedSongs)
        /\ Commit(Append(selectedSongs, rendered.filteredSongs[k]), <<>>, FALSE, TRUE)
    /\ UNCHANGED <<endpointVars, pairVars, chatVars, audioVars>>

\* a click on the remove button of a selected song
handleRemoveSong ==
    /\ \E k \in DOMAIN selectedSongs :
        Commit(Without(selectedSongs, selectedSongs[k]), searchQuery, showResults, TRUE)
    /\ UNCHANGED <<endpointVars, pairVars, chatVars, audioVars>>

SpotifyNext ==
    \/ Type
    \/ DebounceFires
    \/ SearchResponds
    \/ Render
    \/ handleSelectSong
    \/ handleRemoveSong

SpotifyStart == EndpointAtRest /\ PairInit /\ SpotifyInit /\ ChatInit /\ AudioInit

SpotifySpec == SpotifyStart /\ [][SpotifyNext]_vars

\* C24: the list of selected songs never holds more than 3 songs, whatever
\* the sequence of selections, removals and search results.
C24_AtMostThreeSelected == Len(selectedSongs) <= 3

\* three songs are selected while a results list put up by a late search
\* response is on the screen, so that a fourth click can be made
C24_Witness ==
    /\ Len(selectedSongs) = 3
    /\ rendered.showResults
    /\ rendered.filteredSongs # <<>>

\* C29: the list of selected songs never holds two songs with the same id,
\* whatever the interleaving of typing, debounce timer, search responses and
\* selections. Stated as claimed; a response filtered against the selection
\* of an earlier render offers a selected song again.
C29_NoDuplicateSelected ==
    \A j, k \in DOMAIN selectedSongs :
        (selectedSongs[j] = selectedSongs[k]) => (j = k)

\* C25: on every path of the start handler controller.close() is invoked
\* exactly once. Stated as claimed; the two reject paths call it twice.
C25_CloseCalledOnce ==
    /\ closeCalls <= 1
    /\ (pc = "closed") => (closeCalls = 1)

\* C26: every tool the loop executes has its result in the conversation
\* passed to a later model invocation of the run, also in the 10th
\* iteration. Stated as claimed; after the 10th iteration's tools the loop
\* ends without another invocation.
C26_ExecutedToolsAreSeen ==
    (Joined /\ Executed # {}) =>
        /\ \A j \in Executed : InConversation(toolResults[j])
        /\ ModelInvokedAgain

-----------------------------------------------------------------------------
(* Finance-agent page (src/app/projects/finance-agent/page.tsx).           *)
(*                                                                         *)
(* handleSubmit up to its first await, with the commit of its updates, is  *)
(* one action; each resumption after an await is another. The updates of   *)
(* a resumption are committed by a later render, and until then the        *)
(* handlers are those of the last commit.                                  *)

\* submit events the page receives
MaxSubmits == 3

\* what the user may type: "", "  ", "q", " q "
ChatTyped ==
    { <<>>, << <<" ", 2>> >>, << <<"q", 1>> >>,
      << <<" ", 1>>, <<"q", 1>>, <<" ", 1>> >> }

\* the suggestion buttons put a question into the input
Suggestion == << <<"s", 1>> >>

\* the content of a frame, one character standing for the text
Text(ch) == << <<ch, 1>> >>

\* the frames of one response of the endpoint: thoughts, then one message or
\* one error frame
ServerRuns ==
    { << Frame("thought", Text("t")), Frame("message", Text("m")) >>,
      << Frame("thought", Text("t")), Frame("error", Text("e")) >>,
      << Frame("error", Text("e")) >> }

\* the bytes of frame k of a response, 'data: <JSON>\n\n', in pieces a network
\* chunk may end after: inside the prefix, after it, inside the JSON, after
\* it, and between the two newlines
FrameBytes(k) ==
    [ j \in 1..6 |->
        [f |-> k, part |-> << "pre1", "pre2", "json1", "json2", "nl", "nl" >>[j]] ]

RECURSIVE BytesFrom(_, _)
BytesFrom(k, n) == IF k > n THEN <<>> ELSE FrameBytes(k) \o BytesFrom(k + 1, n)

\* everything the server sends for a response
Bytes(served) == BytesFrom(1, Len(served))

Parts(line) == [j \in 1..Len(line) |-> line[j].part]

\* line.startsWith('data: ')
StartsWithData(line) ==
    Len(line) >= 2 /\ SubSeq(Parts(line), 1, 2) = << "pre1", "pre2" >>

\* JSON.parse(line.slice(6)) succeeds: the whole JSON text is in the line
JsonParses(line) ==
    SubSeq(Parts(line), 3, Len(line)) = << "json1", "json2" >>

UserMessage(text) == [role |-> "user", warn |-> FALSE, text |-> text]

\* an assistant answer; warn: the content starts with the warning sign
Content(warn, text) == [warn |-> warn, text |-> text]

AssistantMessage(c) == [role |-> "assistant", warn |-> c.warn, text |-> c.text]

\* let assistantMessage = ''
NoContent == Content(FALSE, <<>>)

\* the catch branch of handleSubmit
WentWrong == Content(TRUE, Text("w"))

\* the body of the loop over the lines of a chunk; st holds assistantMessage
\* and the thought set so far
ProcessLine(line, served, st) ==
    IF line # <<>> /\ StartsWithData(line) /\ JsonParses(line)
    THEN LET data == served[line[1].f] IN
         CASE data.type = "thought" ->
                [st EXCEPT !.thought = [shown |-> TRUE, text |-> data.content]]
           [] data.type = "message" ->
                [st EXCEPT !.assistantMessage = Content(FALSE, data.content)]
           [] data.type = "error" ->
                [st EXCEPT !.assistantMessage = Content(TRUE, data.content)]
           [] OTHER -> st
    ELSE st

\* chunk.split('\n'), the filter of blank lines, and the loop over the lines
RECURSIVE ParseChunk(_, _, _, _)
ParseChunk(chunk, line, served, st) ==
    IF chunk = <<>> THEN ProcessLine(line, served, st)
    ELSE IF Head(chunk).part = "nl"
         THEN ParseChunk(Tail(chunk), <<>>, served, ProcessLine(line, served, st))
         ELSE ParseChunk(Tail(chunk), Append(line, Head(chunk)), served, st)

\* the guard of handleSubmit
MaySubmitAlways(text, processing) == TRUE

MaySubmit(text, processing) == Trim(text) # <<>> /\ ~processing

NewRun ==
    [phase |-> "fetching", served |-> <<>>, rest |-> <<>>,
     assistantMessage |-> NoContent, how |-> "none", reply |-> NoContent,
     refused |-> 0]

InFlight == { r \in 1..Len(runs) : runs[r].phase # "ended" }

Ended == { r \in 1..Len(runs) : runs[r].phase = "ended" }

\* the handlers after a commit see the state of that commit
Committed(processing) == [isProcessing |-> processing]

\* onChange of the input, which is disabled while isProcessing was rendered
TypeInput ==
    /\ ~closure.isProcessing
    /\ \E text \in ChatTyped : input' = text
    /\ closure' = Committed(isProcessing)
    /\ UNCHANGED <<chat, isProcessing, currentThought, runs, submits>>
    /\ UNCHANGED <<endpointVars, pairVars, spotifyVars, audioVars>>

\* the suggestions are rendered while the chat is empty
handleSuggestion ==
    /\ chat = <<>>
    /\ input' = Suggestion
    /\ closure' = Committed(isProcessing)
    /\ UNCHANGED <<chat, isProcessing, currentThought, runs, submits>>
    /\ UNCHANGED <<endpointVars, pairVars, spotifyVars, audioVars>>

\* a submit event: handleSubmit up to the call of fetch
handleSubmit ==
    /\ submits < MaxSubmits
    /\ submits' = submits + 1
    /\ IF MaySubmit(input, closure.isProcessing)
       THEN /\ input' = <<>>
            /\ chat' = Append(chat, UserMessage(Trim(input)))
            /\ isProcessing' = TRUE
            /\ currentThought' = [shown |-> TRUE, text |-> Text("T")]
            /\ runs' = Append(runs, NewRun)
            /\ closure' = Committed(TRUE)
       ELSE /\ runs' = [r \in 1..Len(runs) |->
                          IF r \in InFlight
                          THEN [runs[r] EXCEPT !.refused = @ + 1]
                          ELSE runs[r]]
            /\ UNCHANGED <<chat, input, isProcessing, currentThought, closure>>
    /\ UNCHANGED <<endpointVars, pairVars, spotifyVars, audioVars>>

\* await fetch(...) resolves; the reader is taken
FetchResolves(r) ==
    /\ runs[r].phase = "fetching"
    /\ \E served \in ServerRuns :
         runs' = [runs EXCEPT ![r].phase = "reading", ![r].served = served,
                              ![r].rest = Bytes(served)]
    /\ UNCHANGED <<chat, input, isProcessing, currentThought, closure, submits>>
    /\ UNCHANGED <<endpointVars, pairVars, spotifyVars, audioVars>>

\* await fetch(...) rejects: the catch and finally blocks
FetchRejects(r) ==
    /\ runs[r].phase = "fetching"
    /\ currentThought' = NoThought
    /\ chat' = Append(chat, AssistantMessage(WentWrong))
    /\ isProcessing' = FALSE
    /\ runs' = [runs EXCEPT ![r].phase = "ended", ![r].how = "failed",
                            ![r].reply = WentWrong]
    /\ UNCHANGED <<input, closure, submits>>
    /\ UNCHANGED <<endpointVars, pairVars, spotifyVars, audioVars>>

\* reader.read() yields a chunk: the next n pieces the server sent
ReadChunk(r) ==
    /\ runs[r].phase = "reading"
    /\ runs[r].rest # <<>>
    /\ \E n \in 1..Len(runs[r].rest) :
         LET chunk == SubSeq(runs[r].rest, 1, n)
             st == ParseChunk(chunk, <<>>, runs[r].served,
                              [assistantMessage |-> runs[r].assistantMessage,
                               thought |-> currentThought])
         IN /\ runs' = [runs EXCEPT
                          ![r].rest = SubSeq(@, n + 1, Len(@)),
                          ![r].assistantMessage = st.assistantMessage]
            /\ currentThought' = st.thought
    /\ UNCHANGED <<chat, input, isProcessing, closure, submits>>
    /\ UNCHANGED <<endpointVars, pairVars, spotifyVars, audioVars>>

\* reader.read() yields done: the end of the try block and the finally block
ReadDone(r) ==
    /\ runs[r].phase = "reading"
    /\ runs[r].rest = <<>>
    /\ currentThought' = NoThought
    /\ chat' = Append(chat, AssistantMessage(runs[r].assistantMessage))
    /\ isProcessing' = FALSE
    /\ runs' = [runs EXCEPT ![r].phase = "ended", ![r].how = "done",
                            ![r].reply = runs[r].assistantMessage]
    /\ UNCHANGED <<input, closure, submits>>
    /\ UNCHANGED <<endpointVars, pairVars, spotifyVars, audioVars>>

\* React renders the updates made after an await
ChatRender ==
    /\ closure # Committed(isProcessing)
    /\ closure' = Committed(isProcessing)
    /\ UNCHANGED <<chat, input, isProcessing, currentThought, runs, submits>>
    /\ UNCHANGED <<endpointVars, pairVars, spotifyVars, audioVars>>

ChatNext ==
    \/ TypeInput
    \/ handleSuggestion
    \/ handleSubmit
    \/ \E r \in 1..Len(runs) : FetchResolves(r)
    \/ \E r \in 1..Len(runs) : FetchRejects(r)
    \/ \E r \in 1..Len(runs) : ReadChunk(r)
    \/ \E r \in 1..Len(runs) : ReadDone(r)
    \/ ChatRender

ChatStart == EndpointAtRest /\ PairInit /\ SpotifyInit /\ ChatInit /\ AudioInit

ChatSpec == ChatStart /\ [][ChatNext]_vars

\* what the page has to show for a response: the content of its message
\* frame, or of its error frame after the warning sign
Expected(served) ==
    LET last == served[Len(served)]
    IN Content(last.type = "error", last.content)

\* C27: however the bytes of the response are cut into chunks, a request
\* that is read to its end appends an assistant message with the content of
\* the message frame, or the warning sign and the content of the error frame
C27_ReplyIsServerContent ==
    \A r \in 1..Len(runs) :
        runs[r].how = "done" => runs[r].reply = Expected(runs[r].served)

\* C28: at most one request is in flight; the chat alternates user and
\* assistant messages, one user message per accepted submit and one
\* assistant message per ended request; isProcessing is true exactly while
\* a request is in flight, so a submit in flight appends nothing
C28_OneInFlightAlternating ==
    /\ Cardinality(InFlight) <= 1
    /\ \A k \in 1..Len(chat) :
         chat[k].role = IF k % 2 = 1 THEN "user" ELSE "assistant"
    /\ Len(chat) = Len(runs) + Cardinality(Ended)
    /\ isProcessing <=> InFlight # {}

\* a submit arrived while a request was in flight, the request has ended in
\* each of the three ways, and the chat holds two full exchanges
C28_Witness ==
    /\ Len(chat) >= 4
    /\ \E r \in Ended : runs[r].refused >= 1
    /\ \E r \in Ended : runs[r].how = "failed"
    /\ \E r \in Ended : runs[r].how = "done" /\ runs[r].reply.warn
    /\ InFlight = {}
    /\ ~isProcessing

-----------------------------------------------------------------------------
(* Audio toggle of the root layout (page.tsx lines 391-600).               *)
(*                                                                         *)
(* A click runs toggleAudio and commits its update of isPlaying before the *)
(* next click. The callbacks of the two kinds of interval run between the  *)
(* clicks in any order. Volumes are integers, thousandths of the volume    *)
(* of the audio element. An interval has no state of its own, so the       *)
(* intervals of a kind are counted.                                        *)

\* clicks on the toggle
MaxClicks == 3

\* const targetVolume = 0.3
targetVolume == 300

\* const steps = 50
steps == 50

\* the step and the threshold of the fade-out, 0.05
fadeOutStep == 50

\* const volumeStep = targetVolume / steps
volumeStep == targetVolume \div steps

Max(a, b) == IF a >= b THEN a ELSE b

Min(a, b) == IF a <= b THEN a ELSE b

\* a click on the toggle
toggleAudio ==
    /\ clicks < MaxClicks
    /\ clicks' = clicks + 1
    /\ IF isPlaying
       THEN /\ fadeOuts' = fadeOuts + 1
            /\ UNCHANGED <<audioPaused, volume, fadeIns>>
       ELSE /\ volume' = 0
            /\ audioPaused' = FALSE
            /\ fadeIns' = fadeIns + 1
            /\ UNCHANGED fadeOuts
    /\ isPlaying' = ~isPlaying
    /\ UNCHANGED <<endpointVars, pairVars, spotifyVars, chatVars>>

\* the callback of a fadeOut interval
FadeOutTick ==
    /\ fadeOuts > 0
    /\ IF volume > fadeOutStep
       THEN /\ volume' = Max(0, volume - fadeOutStep)
            /\ UNCHANGED <<fadeOuts, audioPaused>>
       ELSE /\ fadeOuts' = fadeOuts - 1
            /\ audioPaused' = TRUE
            /\ volume' = 0
    /\ UNCHANGED <<isPlaying, fadeIns, clicks>>
    /\ UNCHANGED <<endpointVars, pairVars, spotifyVars, chatVars>>

\* the callback of a fadeIn interval
FadeInTick ==
    /\ fadeIns > 0
    /\ IF volume < targetVolume - volumeStep
       THEN /\ volume' = Min(targetVolume, volume + volumeStep)
            /\ UNCHANGED fadeIns
       ELSE /\ volume' = targetVolume
            /\ fadeIns' = fadeIns - 1
    /\ UNCHANGED <<isPlaying, audioPaused, fadeOuts, clicks>>
    /\ UNCHANGED <<endpointVars, pairVars, spotifyVars, chatVars>>

AudioNext ==
    \/ toggleAudio
    \/ FadeOutTick
    \/ FadeInTick

AudioStart ==
    EndpointAtRest /\ PairInit /\ SpotifyInit /\ ChatInit /\ AudioInit

AudioSpec == AudioStart /\ [][AudioNext]_vars

\* C30: once no fade interval is left, the audio element is playing exactly
\* when isPlaying is true, whatever the order of clicks and timer ticks
C30_PlayingIffIsPlaying ==
    (fadeIns = 0 /\ fadeOuts = 0) => (isPlaying <=> ~audioPaused)

====
